---- MODULE Spec2Model ----
(***************************************************************************)
(* Prescription fulfillment dashboard (src/src/src/App.js).                *)
(*                                                                         *)
(* The model has the Firestore collection `subscriptions` (store), the     *)
(* React state of App and of its forms, and the store writes the handlers  *)
(* have issued and are awaiting (writes).  One client: its writes reach    *)
(* the store in the order they were issued; a snapshot of the collection   *)
(* is delivered to the onSnapshot listener at any later moment.            *)
(*                                                                         *)
(* A Date is modelled to the hour, [y, m, d, h] with m as getMonth() gives *)
(* it (0..11) and h the hour of the day; a session of the dashboard lasts  *)
(* one hour (now).  JS null is NULL for strings and the empty sequence     *)
(* for objects (an object is a one-element sequence).                      *)
(***************************************************************************)
EXTENDS Integers, Sequences, FiniteSets, TLC

VARIABLES
    store,                \* Firestore: document id -> document data
    usedIds,              \* ids addDoc has generated so far (never reused)
    writes,               \* store writes issued and not yet settled, oldest first
    feed,                 \* the onSnapshot listener: "off" (not attached:
                          \* isAuthReady is false), "live" or "dead"
    subscriptions,        \* useState([]) of App
    isLoading,            \* useState(true) of App
    isModalOpen,          \* useState(false) of App
    editingSubscription,  \* useState(null) of App
    formData,             \* useState of SubscriptionForm (kept while it is mounted)
    logModalSubscription, \* useState(null) of App (of the sub, the id: all that is read)
    actionModalData,      \* useState({subscription: null, fulfillment: null}) of App
                          \* (of the subscription, the id: all that is read)
    error,                \* useState(null) of App
    now,                  \* what new Date() returns: the day of the session
    ops                   \* handler invocations that issued a write

vars == <<store, usedIds, writes, feed, subscriptions, isLoading, isModalOpen,
          editingSubscription, formData, logModalSubscription, actionModalData,
          error, now, ops>>

----------------------------------------------------------------------------
(* Bounds of the model *)

MaxSubs == 1
MaxOps == 2
MaxOpenModals == 1

Ids == 1..MaxSubs

\* two of the three options of the duration select
Durations == {1, 3}

StartDates == {[y |-> 2024, m |-> 0, d |-> 31, h |-> 9]}

Trackings == {"", "1Z999"}

UserMessages == {" ", "called patient"}

\* the options of the status select the user picks among
StatusChoices == {"Approved", "On Hold"}

----------------------------------------------------------------------------
(* Values *)

NULL == "null"

STATUS_OPTIONS == {"Pending", "Approved", "Active", "Fulfilled", "On Hold"}

SIMULATED_STATUSES == {"Intake Sent", "Awaiting RX", "RX Received"}

FULFILLMENT_STATUSES == {"Scheduled", "Intake Sent", "Awaiting RX", "RX Received", "Shipped"}

----------------------------------------------------------------------------
(* Dates *)

IsLeapYear(y) == (y % 4 = 0 /\ y % 100 # 0) \/ y % 400 = 0

DaysInMonth(y, m) ==
    IF m = 1 THEN (IF IsLeapYear(y) THEN 29 ELSE 28)
    ELSE IF m \in {3, 5, 8, 10} THEN 30 ELSE 31

\* Date.prototype.setMonth: the month carries into the year, a day past the
\* end of the month carries into the next month
setMonth(date, month) ==
    LET y  == date.y + (month \div 12)
        m  == month % 12
        n  == DaysInMonth(y, m)
    IN  IF date.d <= n THEN [y |-> y, m |-> m, d |-> date.d, h |-> date.h]
        ELSE IF m = 11 THEN [y |-> y + 1, m |-> 0, d |-> date.d - n, h |-> date.h]
        ELSE [y |-> y, m |-> m + 1, d |-> date.d - n, h |-> date.h]

addMonths(date, months) == setMonth(date, date.m + months)

RECURSIVE DaysBeforeMonth(_, _)
DaysBeforeMonth(y, m) ==
    IF m = 0 THEN 0 ELSE DaysBeforeMonth(y, m - 1) + DaysInMonth(y, m - 1)

RECURSIVE DaysBeforeYear(_)
DaysBeforeYear(y) ==
    IF y <= 2024 THEN 0
    ELSE DaysBeforeYear(y - 1) + (IF IsLeapYear(y - 1) THEN 366 ELSE 365)

\* Date.prototype.getTime, in hours since 1 January 2024, 0:00
getTime(date) ==
    (DaysBeforeYear(date.y) + DaysBeforeMonth(date.y, date.m) + date.d - 1) * 24 + date.h

\* toLocaleDateString('en-US'): month/day/year
formatDate(date) == <<date.m + 1, date.d, date.y>>

----------------------------------------------------------------------------
(* Sequences *)

Map(s, F(_)) == [i \in 1..Len(s) |-> F(s[i])]

Last(s) == s[Len(s)]

\* Array.prototype.find on the id: the first match as a one-element sequence
FindSub(subs, subId) == SelectSeq(subs, LAMBDA s : s.id = subId)

RECURSIVE SetToSortedSeq(_)
SetToSortedSeq(S) ==
    IF S = {} THEN <<>>
    ELSE LET x == CHOOSE v \in S : \A w \in S : v <= w
         IN  <<x>> \o SetToSortedSeq(S \ {x})

----------------------------------------------------------------------------
(* The store *)

DocFields == {"status", "duration", "startDate", "fulfillments", "communicationLog"}

\* updateDoc(docRef, patch): the fields the patch names are replaced, the
\* others kept.  A patch is a sequence of <<field, value>> pairs.
Patched(doc, patch, name) ==
    IF \E i \in 1..Len(patch) : patch[i][1] = name
    THEN patch[CHOOSE i \in 1..Len(patch) : patch[i][1] = name][2]
    ELSE doc[name]

ApplyPatch(doc, patch) ==
    [status           |-> Patched(doc, patch, "status"),
     duration         |-> Patched(doc, patch, "duration"),
     startDate        |-> Patched(doc, patch, "startDate"),
     fulfillments     |-> Patched(doc, patch, "fulfillments"),
     communicationLog |-> Patched(doc, patch, "communicationLog")]

\* the object spread of a subscription without its id, as a patch
DataOf(subData) ==
    << <<"status", subData.status>>,
       <<"duration", subData.duration>>,
       <<"startDate", subData.startDate>>,
       <<"fulfillments", subData.fulfillments>>,
       <<"communicationLog", subData.communicationLog>> >>

\* a write handed to Firestore and awaited: what it writes, who awaits it
\* (origin), and for the log write of updateFulfillment the call it belongs
\* to (key, newStatus, tracking) and the fulfillments it writes next
Write(api, id, patch, origin, next, key, newStatus, tracking) ==
    [api |-> api, id |-> id, patch |-> patch, origin |-> origin, next |-> next,
     key |-> key, newStatus |-> newStatus, tracking |-> tracking]

\* a store with a version check: it refuses a log that does not extend the
\* stored one
AcceptedUnlessStale(w, ok) ==
    /\ ok
    /\ w.api = "updateDoc" =>
          /\ w.id \in DOMAIN store
          /\ \A k \in 1..Len(w.patch) :
                w.patch[k][1] = "communicationLog" =>
                    LET stored == store[w.id].communicationLog
                    IN  /\ Len(stored) <= Len(w.patch[k][2])
                        /\ SubSeq(w.patch[k][2], 1, Len(stored)) = stored

\* whether the store accepts the write: updateDoc fails on a missing document
Accepted(w, ok) == ok /\ (w.api = "updateDoc" => w.id \in DOMAIN store)

StoreAfter(w) ==
    CASE w.api = "addDoc" ->
            [i \in DOMAIN store \cup {w.id} |->
                IF i = w.id
                THEN [status           |-> w.patch[1][2],
                      duration         |-> w.patch[2][2],
                      startDate        |-> w.patch[3][2],
                      fulfillments     |-> w.patch[4][2],
                      communicationLog |-> w.patch[5][2]]
                ELSE store[i]]
      [] w.api = "updateDoc" ->
            [store EXCEPT ![w.id] = ApplyPatch(store[w.id], w.patch)]
      [] w.api = "deleteDoc" ->
            [i \in DOMAIN store \ {w.id} |-> store[i]]

----------------------------------------------------------------------------
(* onSnapshot *)

\* a derivation that never answers Action Required
overallStatusNoAction(sub) ==
    LET allFulfilled == \A i \in 1..Len(sub.fulfillments) :
                            sub.fulfillments[i].status = "Shipped"
    IN  IF sub.status # "On Hold"
        THEN IF allFulfilled THEN "Fulfilled" ELSE "Active"
        ELSE sub.status

\* a derivation that lets a received prescription override On Hold
overallStatusNoHold(sub) ==
    LET allFulfilled   == \A i \in 1..Len(sub.fulfillments) :
                              sub.fulfillments[i].status = "Shipped"
        requiresAction == \E i \in 1..Len(sub.fulfillments) :
                              sub.fulfillments[i].status = "RX Received"
    IN  IF sub.status # "On Hold" \/ requiresAction
        THEN IF allFulfilled THEN "Fulfilled"
             ELSE IF requiresAction THEN "Action Required"
             ELSE "Active"
        ELSE sub.status

\* the status the snapshot handler gives a subscription
overallStatus(sub) ==
    LET allFulfilled   == \A i \in 1..Len(sub.fulfillments) :
                              sub.fulfillments[i].status = "Shipped"
        requiresAction == \E i \in 1..Len(sub.fulfillments) :
                              sub.fulfillments[i].status = "RX Received"
    IN  IF sub.status # "On Hold"
        THEN IF allFulfilled THEN "Fulfilled"
             ELSE IF requiresAction THEN "Action Required"
             ELSE "Active"
        ELSE sub.status

\* querySnapshot.docs.map(...): the documents in the order of their ids
subs(st) ==
    LET ids == SetToSortedSeq(DOMAIN st)
    IN  [i \in 1..Len(ids) |->
            [id               |-> ids[i],
             status           |-> st[ids[i]].status,
             duration         |-> st[ids[i]].duration,
             startDate        |-> st[ids[i]].startDate,
             fulfillments     |-> st[ids[i]].fulfillments,
             communicationLog |-> st[ids[i]].communicationLog]]

updatedSubs(st) ==
    Map(subs(st), LAMBDA sub : [sub EXCEPT !.status = overallStatus(sub)])

----------------------------------------------------------------------------
(* SubscriptionForm *)

\* String(n) (StringOf) and parseInt(s, 10) on the values of the duration select
StringOf(n) == CASE n = 1 -> "1" [] n = 3 -> "3" [] n = 6 -> "6"

parseInt(s) == CASE s = "1" -> 1 [] s = "3" -> 3 [] s = "6" -> 6

\* useState initialiser of SubscriptionForm; subscription is <<>> or <<sub>>
InitialFormData(subscription) ==
    IF subscription = <<>>
    THEN [status |-> "Pending", duration |-> StringOf(1)]
    ELSE [status |-> subscription[1].status,
          duration |-> StringOf(subscription[1].duration)]

newFulfillments(startDate, duration) ==
    [n \in 1..duration |->
        [fulfillmentDate |-> addMonths(startDate, n - 1),
         status          |-> IF n - 1 = 0 THEN "RX Received" ELSE "Scheduled",
         tracking        |-> NULL,
         rxId            |-> IF n - 1 = 0 THEN <<"RX-INITIAL-", startDate>> ELSE <<>>]]

\* handleSubmit: the submissionData passed to onSave
handleSubmit(fd, subscription, today) ==
    IF subscription # <<>>
    THEN [id               |-> <<subscription[1].id>>,
          status           |-> fd.status,
          duration         |-> parseInt(fd.duration),
          startDate        |-> subscription[1].startDate,
          fulfillments     |-> subscription[1].fulfillments,
          communicationLog |-> subscription[1].communicationLog]
    ELSE [id               |-> <<>>,
          status           |-> fd.status,
          duration         |-> parseInt(fd.duration),
          startDate        |-> today,
          fulfillments     |-> newFulfillments(today, parseInt(fd.duration)),
          communicationLog |-> << [date    |-> today,
                                   message |-> <<"Subscription created.">>,
                                   actor   |-> "System"] >>]

----------------------------------------------------------------------------
(* updateFulfillment and addLog *)

\* a map that writes the tracking argument even when it is null
mappedFulfillmentsOverwriteTracking(sub, fulfillmentToUpdate, newStatus, tracking) ==
    Map(sub.fulfillments,
        LAMBDA f :
            IF getTime(f.fulfillmentDate) = getTime(fulfillmentToUpdate.fulfillmentDate)
            THEN [f EXCEPT !.status = newStatus, !.tracking = tracking]
            ELSE f)

\* sub.fulfillments.map(...) of updateFulfillment
mappedFulfillments(sub, fulfillmentToUpdate, newStatus, tracking) ==
    Map(sub.fulfillments,
        LAMBDA f :
            IF getTime(f.fulfillmentDate) = getTime(fulfillmentToUpdate.fulfillmentDate)
            THEN [f EXCEPT !.status = newStatus,
                           !.tracking = IF tracking # NULL THEN tracking ELSE f.tracking]
            ELSE f)

logMessage(fulfillmentToUpdate, newStatus, tracking) ==
    IF newStatus = "Shipped"
    THEN <<"Marked fulfillment for", formatDate(fulfillmentToUpdate.fulfillmentDate),
           "as Shipped. Tracking:", tracking>>
    ELSE <<"Updated fulfillment for", formatDate(fulfillmentToUpdate.fulfillmentDate),
           "to status:", newStatus>>

\* the communicationLog addLog writes
appendedLog(sub, message, actor) ==
    Append(sub.communicationLog, [date |-> now, message |-> message, actor |-> actor])

\* updateFulfillment up to its first await: the sub is looked up in the
\* subscriptions of the current render, the new fulfillments and the log
\* message are computed, and addLog issues its write; the write of the
\* fulfillments follows when that one has settled
updateFulfillment(subId, fulfillmentToUpdate, newStatus, tracking) ==
    LET found == FindSub(subscriptions, subId)
    IN  IF found = <<>>
        THEN UNCHANGED <<writes, ops>>
        ELSE LET sub == found[1]
                 fs  == mappedFulfillments(sub, fulfillmentToUpdate, newStatus, tracking)
                 msg == logMessage(fulfillmentToUpdate, newStatus, tracking)
                 who == IF newStatus = "Shipped" THEN "Pharmacy Staff" ELSE "System"
             IN  /\ writes' = Append(writes,
                        Write("updateDoc", subId,
                              << <<"communicationLog", appendedLog(sub, msg, who)>> >>,
                              "updateFulfillment.addLog",
                              << <<"fulfillments", fs>> >>,
                              fulfillmentToUpdate.fulfillmentDate, newStatus, tracking))
                 /\ ops' = ops + 1

\* String.prototype.trim on the messages typed
trim(s) == IF s = " " THEN "" ELSE s

----------------------------------------------------------------------------
(* Initial state: nobody is signed in, no listener is attached *)

\* the document a create leaves in the store
CreatedDoc(duration, today) ==
    LET subData == handleSubmit([status |-> "Pending", duration |-> StringOf(duration)],
                                <<>>, today)
    IN  [status           |-> subData.status,
         duration         |-> subData.duration,
         startDate        |-> subData.startDate,
         fulfillments     |-> subData.fulfillments,
         communicationLog |-> subData.communicationLog]

\* the collection is empty, or holds subscriptions created in an earlier session
Init ==
    /\ \E S \in SUBSET Ids :
          /\ usedIds = S
          /\ store \in [S -> {CreatedDoc(n, date) : n \in Durations, date \in StartDates}]
    /\ writes = <<>>
    /\ feed = "off"
    /\ subscriptions = <<>>
    /\ isLoading = TRUE
    /\ isModalOpen = FALSE
    /\ editingSubscription = <<>>
    /\ formData = InitialFormData(<<>>)
    /\ logModalSubscription = <<>>
    /\ actionModalData = <<>>
    /\ error = NULL
    /\ now \in StartDates
    /\ ops = 0

----------------------------------------------------------------------------
(* Authentication and the snapshot listener *)

ui == <<isModalOpen, editingSubscription, formData, logModalSubscription, actionModalData>>

\* onAuthStateChanged calls back with a user: isAuthReady becomes true and
\* the effect that depends on it attaches the listener
AuthReady ==
    /\ feed = "off"
    /\ feed' = "live"
    /\ isLoading' = TRUE
    /\ UNCHANGED <<store, usedIds, writes, subscriptions, ui, error, now, ops>>

\* signInAnonymously rejects.  The observer stays registered for the life of
\* App and calls signIn whenever it is called back without a user; the call
\* itself changes no state, and the catch sets the error whatever
\* isAuthReady is and whatever the listener has done since.
SignInRejected ==
    /\ error' = "Could not authenticate user."
    /\ UNCHANGED <<store, usedIds, writes, feed, subscriptions, isLoading, ui,
                   now, ops>>

SnapshotDelivered ==
    /\ feed = "live"
    /\ subscriptions' = updatedSubs(store)
    /\ isLoading' = FALSE
    /\ UNCHANGED <<store, usedIds, writes, feed, ui, error, now, ops>>

FeedError ==
    /\ feed = "live"
    /\ feed' = "dead"
    /\ error' = "Failed to load subscription data."
    /\ isLoading' = FALSE
    /\ UNCHANGED <<store, usedIds, writes, subscriptions, ui, now, ops>>

----------------------------------------------------------------------------
(* The subscription form *)

\* the rows of the table are rendered once loading is over
Rows == IF isLoading THEN {} ELSE {subscriptions[i] : i \in 1..Len(subscriptions)}

\* the modals that are open (each overlays the page; the buttons behind it
\* stay in the document and can still be activated)
OpenModals ==
    (IF isModalOpen THEN 1 ELSE 0)
    + (IF logModalSubscription # <<>> THEN 1 ELSE 0)
    + (IF actionModalData # <<>> THEN 1 ELSE 0)

\* the form is unmounted while the modal is closed: its state is gone
Unmounted == InitialFormData(<<>>)

\* the form's state is initialised when the form mounts, that is when the
\* modal opens, and kept while the modal stays open
MountedFormData(subscription) ==
    IF isModalOpen THEN formData ELSE InitialFormData(subscription)

OpenCreate ==
    /\ isModalOpen \/ OpenModals < MaxOpenModals
    /\ editingSubscription' = <<>>
    /\ isModalOpen' = TRUE
    /\ formData' = MountedFormData(<<>>)
    /\ UNCHANGED <<store, usedIds, writes, feed, subscriptions, isLoading,
                   logModalSubscription, actionModalData, error, now, ops>>

OpenEdit ==
    \E sub \in Rows :
        /\ isModalOpen \/ OpenModals < MaxOpenModals
        /\ editingSubscription' = <<sub>>
        /\ isModalOpen' = TRUE
        /\ formData' = MountedFormData(<<sub>>)
        /\ UNCHANGED <<store, usedIds, writes, feed, subscriptions, isLoading,
                       logModalSubscription, actionModalData, error, now, ops>>

\* handleChange on the status select
ChangeStatus ==
    \E value \in StatusChoices :
        /\ isModalOpen
        /\ formData' = [formData EXCEPT !.status = value]
        /\ UNCHANGED <<store, usedIds, writes, feed, subscriptions, isLoading,
                       isModalOpen, editingSubscription, logModalSubscription,
                       actionModalData, error, now, ops>>

\* handleChange on the duration select, disabled while a subscription is edited
ChangeDuration ==
    \E value \in Durations :
        /\ isModalOpen
        /\ editingSubscription = <<>>
        /\ formData' = [formData EXCEPT !.duration = StringOf(value)]
        /\ UNCHANGED <<store, usedIds, writes, feed, subscriptions, isLoading,
                       isModalOpen, editingSubscription, logModalSubscription,
                       actionModalData, error, now, ops>>

CloseForm ==
    /\ isModalOpen
    /\ isModalOpen' = FALSE
    /\ editingSubscription' = <<>>
    /\ formData' = Unmounted
    /\ UNCHANGED <<store, usedIds, writes, feed, subscriptions, isLoading,
                   logModalSubscription, actionModalData, error, now, ops>>

\* handleSubmit and handleSaveSubscription up to its await
handleSaveSubscription(subData) ==
    /\ isModalOpen' = FALSE
    /\ editingSubscription' = <<>>
    /\ IF subData.id # <<>>
       THEN /\ writes' = Append(writes,
                    Write("updateDoc", subData.id[1], DataOf(subData),
                          "handleSaveSubscription.update", <<>>, <<>>, NULL, NULL))
            /\ UNCHANGED usedIds
       ELSE \E id \in Ids \ usedIds :
                /\ writes' = Append(writes,
                        Write("addDoc", id, DataOf(subData),
                              "handleSaveSubscription.add", <<>>, <<>>, NULL, NULL))
                /\ usedIds' = usedIds \cup {id}

SubmitForm ==
    /\ isModalOpen
    /\ ops < MaxOps
    /\ handleSaveSubscription(handleSubmit(formData, editingSubscription, now))
    /\ formData' = Unmounted
    /\ ops' = ops + 1
    /\ UNCHANGED <<store, feed, subscriptions, isLoading,
                   logModalSubscription, actionModalData, error, now>>

----------------------------------------------------------------------------
(* The log modal *)

OpenLog ==
    \E sub \in Rows :
        /\ logModalSubscription # <<>> \/ OpenModals < MaxOpenModals
        /\ logModalSubscription' = <<[id |-> sub.id]>>
        /\ UNCHANGED <<store, usedIds, writes, feed, subscriptions, isLoading,
                       isModalOpen, editingSubscription, formData, actionModalData,
                       error, now, ops>>

CloseLog ==
    /\ logModalSubscription # <<>>
    /\ logModalSubscription' = <<>>
    /\ UNCHANGED <<store, usedIds, writes, feed, subscriptions, isLoading,
                   isModalOpen, editingSubscription, formData, actionModalData,
                   error, now, ops>>

\* addLog called on its own: returns when the sub is not in the list
addLog(subId, message, actor) ==
    LET found == FindSub(subscriptions, subId)
    IN  IF found = <<>>
        THEN UNCHANGED <<writes, ops>>
        ELSE /\ writes' = Append(writes,
                    Write("updateDoc", subId,
                          << <<"communicationLog", appendedLog(found[1], message, actor)>> >>,
                          "addLog", <<>>, <<>>, NULL, NULL))
             /\ ops' = ops + 1

\* handleAddLog of LogModal; a message is the sequence of its parts, the
\* typed text being one part
AddLogClick ==
    \E newMessage \in UserMessages :
        /\ logModalSubscription # <<>>
        /\ ops < MaxOps
        /\ IF trim(newMessage) # ""
           THEN addLog(logModalSubscription[1].id, <<newMessage>>, "Pharmacy Staff")
           ELSE UNCHANGED <<writes, ops>>
        /\ UNCHANGED <<store, usedIds, feed, subscriptions, isLoading, ui, error,
                       now>>

----------------------------------------------------------------------------
(* The fulfillment modal *)

OpenAction ==
    \E sub \in Rows :
        \E i \in 1..Len(sub.fulfillments) :
            /\ actionModalData # <<>> \/ OpenModals < MaxOpenModals
            /\ actionModalData' = <<[subscription |-> [id |-> sub.id],
                                      fulfillment  |-> sub.fulfillments[i]]>>
            /\ UNCHANGED <<store, usedIds, writes, feed, subscriptions, isLoading,
                           isModalOpen, editingSubscription, formData,
                           logModalSubscription, error, now, ops>>

CloseAction ==
    /\ actionModalData # <<>>
    /\ actionModalData' = <<>>
    /\ UNCHANGED <<store, usedIds, writes, feed, subscriptions, isLoading,
                   isModalOpen, editingSubscription, formData, logModalSubscription,
                   error, now, ops>>

\* the three "Simulate" buttons, rendered whatever the fulfillment's status
SimulateClick ==
    \E newStatus \in SIMULATED_STATUSES :
        /\ actionModalData # <<>>
        /\ ops < MaxOps
        /\ updateFulfillment(actionModalData[1].subscription.id,
                             actionModalData[1].fulfillment, newStatus, NULL)
        /\ UNCHANGED <<store, usedIds, feed, subscriptions, isLoading, ui, error,
                       now>>

\* a ship control rendered whatever the opened fulfillment shows
ShipClickAnyStatus ==
    \E trackingNumber \in Trackings :
        /\ actionModalData # <<>>
        /\ ops < MaxOps
        /\ updateFulfillment(actionModalData[1].subscription.id,
                             actionModalData[1].fulfillment, "Shipped", trackingNumber)
        /\ UNCHANGED <<store, usedIds, feed, subscriptions, isLoading, ui, error,
                       now>>

\* handleShip: the button is rendered while the opened fulfillment is RX Received
ShipClick ==
    \E trackingNumber \in Trackings :
        /\ actionModalData # <<>>
        /\ actionModalData[1].fulfillment.status = "RX Received"
        /\ ops < MaxOps
        /\ updateFulfillment(actionModalData[1].subscription.id,
                             actionModalData[1].fulfillment, "Shipped", trackingNumber)
        /\ UNCHANGED <<store, usedIds, feed, subscriptions, isLoading, ui, error,
                       now>>

----------------------------------------------------------------------------
(* Delete *)

\* handleDelete with window.confirm answered yes
DeleteClick ==
    \E sub \in Rows :
        /\ ops < MaxOps
        /\ writes' = Append(writes,
                Write("deleteDoc", sub.id, <<>>, "handleDelete", <<>>, <<>>, NULL, NULL))
        /\ ops' = ops + 1
        /\ UNCHANGED <<store, usedIds, feed, subscriptions, isLoading, ui, error,
                       now>>

----------------------------------------------------------------------------
(* The store settles the oldest write: the awaiting handler resumes *)

\* catch blocks where a failed log append is only logged to the console
ErrorMessageLogUnreported(origin) ==
    CASE origin = "addLog" -> NULL
      [] origin = "updateFulfillment.addLog" -> NULL
      [] origin = "updateFulfillment" -> "Failed to update fulfillment status."
      [] origin = "handleSaveSubscription.update" -> "Could not update the subscription."
      [] origin = "handleSaveSubscription.add" -> "Could not create the subscription."
      [] origin = "handleDelete" -> "Could not delete the subscription."

ErrorMessage(origin) ==
    CASE origin = "addLog" -> "Failed to add log entry."
      [] origin = "updateFulfillment.addLog" -> "Failed to add log entry."
      [] origin = "updateFulfillment" -> "Failed to update fulfillment status."
      [] origin = "handleSaveSubscription.update" -> "Could not update the subscription."
      [] origin = "handleSaveSubscription.add" -> "Could not create the subscription."
      [] origin = "handleDelete" -> "Could not delete the subscription."

\* what the handler awaiting w still has to write once w has settled
Continuation(w) ==
    IF w.origin = "updateFulfillment.addLog"
    THEN <<Write("updateDoc", w.id, w.next, "updateFulfillment", <<>>,
                 w.key, w.newStatus, w.tracking)>>
    ELSE <<>>

SettleWrite(ok) ==
        /\ writes # <<>>
        /\ LET w == Head(writes)
           IN  /\ store' = IF Accepted(w, ok) THEN StoreAfter(w) ELSE store
               /\ writes' = Tail(writes) \o Continuation(w)
               /\ error' = IF Accepted(w, ok) THEN error ELSE ErrorMessage(w.origin)
               /\ actionModalData' =
                      IF Accepted(w, ok) /\ w.origin = "updateFulfillment"
                      THEN <<>> ELSE actionModalData
        /\ UNCHANGED <<usedIds, feed, subscriptions, isLoading, isModalOpen,
                       editingSubscription, formData, logModalSubscription,
                       now, ops>>

----------------------------------------------------------------------------

Next ==
    \/ AuthReady
    \/ SnapshotDelivered
    \/ OpenCreate
    \/ OpenEdit
    \/ ChangeStatus
    \/ ChangeDuration
    \/ CloseForm
    \/ SubmitForm
    \/ OpenLog
    \/ CloseLog
    \/ AddLogClick
    \/ OpenAction
    \/ CloseAction
    \/ SimulateClick
    \/ ShipClick
    \/ DeleteClick
    \/ SettleWrite(TRUE)

Spec == Init /\ [][Next]_vars

----------------------------------------------------------------------------
(* The sorted list *)

\* getNextActionableDate: <<>> for null
getNextActionableDate(sub) ==
    LET open == SelectSeq(sub.fulfillments, LAMBDA f : f.status # "Shipped")
    IN  IF open = <<>> THEN <<>> ELSE <<open[1].fulfillmentDate>>

\* a comparator without the Action Required priority
compareByDateOnly(a, b) ==
    LET dateA == getNextActionableDate(a)
        dateB == getNextActionableDate(b)
    IN  IF dateA = <<>> THEN 1
        ELSE IF dateB = <<>> THEN -1
        ELSE getTime(dateA[1]) - getTime(dateB[1])

\* the comparator passed to sort
compare(a, b) ==
    IF a.status = "Action Required" /\ b.status # "Action Required" THEN -1
    ELSE IF b.status = "Action Required" /\ a.status # "Action Required" THEN 1
    ELSE LET dateA == getNextActionableDate(a)
             dateB == getNextActionableDate(b)
         IN  IF dateA = <<>> THEN 1
             ELSE IF dateB = <<>> THEN -1
             ELSE getTime(dateA[1]) - getTime(dateB[1])

\* Array.prototype.sort is given a comparator that answers 1 both ways for two
\* subscriptions without a next actionable date, so the order it produces is
\* the engine's: the model has the algorithms two engines run on an array
\* of fewer than 24 elements.
Engines == {"V8", "SpiderMonkey"}

InsertAt(arr, k, x) == SubSeq(arr, 1, k) \o <<x>> \o SubSeq(arr, k + 1, Len(arr))

Reverse(arr) == [i \in 1..Len(arr) |-> arr[Len(arr) + 1 - i]]

\* V8, BinaryInsertionSort: the place of pivot among the sorted elements
\* arr[left+1..right]
RECURSIVE BinarySearch(_, _, _, _)
BinarySearch(arr, pivot, left, right) ==
    IF left < right
    THEN LET mid == left + ((right - left) \div 2)
         IN  IF compare(pivot, arr[mid + 1]) < 0
             THEN BinarySearch(arr, pivot, left, mid)
             ELSE BinarySearch(arr, pivot, mid + 1, right)
    ELSE left

RECURSIVE BinaryInsertionSort(_, _)
BinaryInsertionSort(arr, start) ==
    IF start < Len(arr)
    THEN LET pivot == arr[start + 1]
             left  == BinarySearch(arr, pivot, 0, start)
         IN  BinaryInsertionSort(
                 InsertAt(SubSeq(arr, 1, start), left, pivot)
                     \o SubSeq(arr, start + 2, Len(arr)),
                 start + 1)
    ELSE arr

\* V8, CountAndMakeRun: the length of the run the array starts with
RECURSIVE RunLength(_, _, _)
RunLength(arr, isDescending, idx) ==
    IF idx < Len(arr)
    THEN LET order == compare(arr[idx + 1], arr[idx])
         IN  IF (isDescending /\ order >= 0) \/ (~isDescending /\ order < 0)
             THEN idx
             ELSE RunLength(arr, isDescending, idx + 1)
    ELSE idx

TimSort(arr) ==
    IF Len(arr) < 2 THEN arr
    ELSE LET isDescending == compare(arr[2], arr[1]) < 0
             runLength    == RunLength(arr, isDescending, 2)
             run          == IF isDescending
                             THEN Reverse(SubSeq(arr, 1, runLength))
                                      \o SubSeq(arr, runLength + 1, Len(arr))
                             ELSE arr
         IN  BinaryInsertionSort(run, runLength)

\* SpiderMonkey, InsertionSort: item moves left past every element that
\* does not compare <= 0 with it
RECURSIVE SinkLeft(_, _, _)
SinkLeft(arr, item, j) ==
    IF j >= 1 /\ ~(compare(arr[j], item) <= 0)
    THEN SinkLeft(arr, item, j - 1)
    ELSE j

RECURSIVE InsertionSort(_, _)
InsertionSort(arr, i) ==
    IF i <= Len(arr)
    THEN LET item == arr[i]
             j    == SinkLeft(arr, item, i - 1)
         IN  InsertionSort(
                 InsertAt(SubSeq(arr, 1, i - 1), j, item) \o SubSeq(arr, i + 1, Len(arr)),
                 i + 1)
    ELSE arr

\* [...subscriptions].sort(compare)
sortedSubscriptions(engine, list) ==
    IF engine = "V8" THEN TimSort(list) ELSE InsertionSort(list, 2)

----------------------------------------------------------------------------
(* The snapshot handler and the sort on any collection the store can hold *)

\* a subscription as the store can hold it: created on startDate, its stored
\* status written by an edit, its fulfillments moved by transitions
StoredDoc(stored, startDate, statuses) ==
    LET doc == CreatedDoc(Len(statuses), startDate)
    IN  [doc EXCEPT !.status = stored,
                    !.fulfillments =
                        [i \in 1..Len(statuses) |->
                            [doc.fulfillments[i] EXCEPT
                                !.status = statuses[i],
                                !.tracking = IF statuses[i] = "Shipped"
                                             THEN "1Z999" ELSE NULL]]]

StoredDocs(storedStatuses, startDates, fulfillmentStatuses) ==
    {StoredDoc(stored, startDate, statuses) :
        stored \in storedStatuses, startDate \in startDates,
        statuses \in UNION {[1..n -> fulfillmentStatuses] : n \in Durations}}

InitOver(st) ==
    /\ store = st
    /\ usedIds = DOMAIN st
    /\ writes = <<>>
    /\ feed = "off"
    /\ subscriptions = <<>>
    /\ isLoading = TRUE
    /\ isModalOpen = FALSE
    /\ editingSubscription = <<>>
    /\ formData = Unmounted
    /\ logModalSubscription = <<>>
    /\ actionModalData = <<>>
    /\ error = NULL
    /\ now \in StartDates
    /\ ops = 0

InitWith(collections) == \E st \in collections : InitOver(st)

\* one subscription of any stored status and any fulfillment statuses
InitDerive ==
    InitWith([{1} -> StoredDocs(STATUS_OPTIONS \cup {"Action Required"}, StartDates,
                                FULFILLMENT_STATUSES)])

\* the listener is attached and snapshots are delivered
NextSnapshot == AuthReady \/ SnapshotDelivered

SpecDerive == InitDerive /\ [][NextSnapshot]_vars

MaxSortSubs == 3
MaxSortFulfillments == 4

\* two subscriptions started on one day an hour apart, and a third start
\* whose first fulfillment is due at the time of the second fulfillment of
\* a subscription of the first start
SortStartDates == {[y |-> 2024, m |-> 0, d |-> 31, h |-> 9],
                   [y |-> 2024, m |-> 0, d |-> 31, h |-> 10],
                   [y |-> 2024, m |-> 2, d |-> 2, h |-> 9]}

SortStoredStatuses == {"Pending", "On Hold"}

SortFulfillmentStatuses == {"Scheduled", "RX Received", "Shipped"}

RECURSIVE Sum(_, _)
Sum(f, n) == IF n = 0 THEN 0 ELSE f[n] + Sum(f, n - 1)

\* up to MaxSortSubs subscriptions, under the ids 1..n, with up to
\* MaxSortFulfillments fulfillments in all: any durations, stored statuses,
\* start dates and fulfillment statuses
InitSort ==
    \E n \in 0..MaxSortSubs :
        \E duration \in [1..n -> Durations] :
            /\ Sum(duration, n) <= MaxSortFulfillments
            /\ \E stored \in [1..n -> SortStoredStatuses],
                  startDate \in [1..n -> SortStartDates],
                  statuses \in [{ij \in (1..n) \X (1..3) : ij[2] <= duration[ij[1]]}
                                    -> SortFulfillmentStatuses] :
                  InitOver([i \in 1..n |->
                               StoredDoc(stored[i], startDate[i],
                                         [k \in 1..duration[i] |-> statuses[<<i, k>>]])])

SpecSort == InitSort /\ [][NextSnapshot]_vars

----------------------------------------------------------------------------
(* Creation on any day: the collection starts empty *)

\* times new Date() can give: the first and the last of a month, and a day
\* late in the year
CreateDates == {[y |-> 2024, m |-> 0, d |-> 1, h |-> 9],
                [y |-> 2024, m |-> 0, d |-> 31, h |-> 10],
                [y |-> 2024, m |-> 10, d |-> 15, h |-> 9]}

InitCreate ==
    /\ store = <<>>
    /\ usedIds = {}
    /\ writes = <<>>
    /\ feed = "off"
    /\ subscriptions = <<>>
    /\ isLoading = TRUE
    /\ isModalOpen = FALSE
    /\ editingSubscription = <<>>
    /\ formData = Unmounted
    /\ logModalSubscription = <<>>
    /\ actionModalData = <<>>
    /\ error = NULL
    /\ now \in CreateDates
    /\ ops = 0

NextCreate ==
    \/ AuthReady
    \/ SnapshotDelivered
    \/ OpenCreate
    \/ ChangeStatus
    \/ ChangeDuration
    \/ CloseForm
    \/ SubmitForm
    \/ SettleWrite(TRUE)

SpecCreate == InitCreate /\ [][NextCreate]_vars

----------------------------------------------------------------------------
(* Failures: sign-in is refused, the store refuses a write, the change feed
   breaks *)

\* the collection is empty or holds one subscription of one month, as it
\* was created
InitFail ==
    InitWith({<<>>} \cup {[i \in {1} |-> CreatedDoc(1, date)] : date \in StartDates})

NextFail ==
    \/ AuthReady
    \/ SignInRejected
    \/ SnapshotDelivered
    \/ FeedError
    \/ OpenCreate
    \/ OpenEdit
    \/ ChangeStatus
    \/ ChangeDuration
    \/ CloseForm
    \/ SubmitForm
    \/ OpenLog
    \/ CloseLog
    \/ AddLogClick
    \/ OpenAction
    \/ CloseAction
    \/ SimulateClick
    \/ ShipClick
    \/ DeleteClick
    \/ SettleWrite(TRUE)
    \/ SettleWrite(FALSE)

SpecFail == InitFail /\ [][NextFail]_vars

----------------------------------------------------------------------------
(* updateFulfillment called with any arguments *)

\* a date that is the fulfillmentDate of no fulfillment
UnknownDate == [y |-> 2024, m |-> 5, d |-> 15, h |-> 9]

CallUpdateFulfillment ==
    \E subId \in Ids, newStatus \in FULFILLMENT_STATUSES, tracking \in Trackings \cup {NULL} :
        \E i \in 1..Len(subscriptions) :
            \E date \in {UnknownDate} \cup
                        {subscriptions[i].fulfillments[j].fulfillmentDate :
                            j \in 1..Len(subscriptions[i].fulfillments)} :
                /\ ops < MaxOps
                /\ updateFulfillment(subId, [fulfillmentDate |-> date], newStatus, tracking)
                /\ UNCHANGED <<store, usedIds, feed, subscriptions, isLoading, ui, error,
                               now>>

NextApi ==
    \/ AuthReady
    \/ SnapshotDelivered
    \/ CallUpdateFulfillment
    \/ SettleWrite(TRUE)

SpecApi == Init /\ [][NextApi]_vars

----------------------------------------------------------------------------
(* Claims *)

RECURSIVE IsSubsequence(_, _)
IsSubsequence(s, t) ==
    IF s = <<>> THEN TRUE
    ELSE IF t = <<>> THEN FALSE
    ELSE IF Head(s) = Head(t) THEN IsSubsequence(Tail(s), Tail(t))
    ELSE IsSubsequence(s, Tail(t))

\* the write at the head of the queue is settled by this step
Settles(origins) ==
    /\ writes # <<>>
    /\ Head(writes).origin \in origins
    /\ writes' = Tail(writes) \o Continuation(Head(writes))

\* C1: the stored communicationLog of a subscription only grows: every entry
\* that was in the stored log before a step is still in it after the step,
\* unmodified and in the same relative order.
C1_LogOnlyGrows ==
    [][\A id \in DOMAIN store \cap DOMAIN store' :
          IsSubsequence(store[id].communicationLog, store'[id].communicationLog)]_vars

\* C2: every stored subscription has as many fulfillments as its duration
\* says, and no step changes the number of fulfillments of a subscription.
C2_FulfillmentsMatchDuration ==
    /\ [](\A id \in DOMAIN store : Len(store[id].fulfillments) = store[id].duration)
    /\ [][\A id \in DOMAIN store \cap DOMAIN store' :
            Len(store'[id].fulfillments) = Len(store[id].fulfillments)]_vars

\* the priority rule of the specification, on a stored status and the
\* statuses of the fulfillments
PriorityRule(stored, statuses) ==
    CASE stored = "On Hold" -> "On Hold"
      [] stored # "On Hold" /\ statuses = {"Shipped"} -> "Fulfilled"
      [] stored # "On Hold" /\ statuses # {"Shipped"} /\ "RX Received" \in statuses ->
            "Action Required"
      [] OTHER -> "Active"

StatusesOf(fulfillments) == {fulfillments[i].status : i \in 1..Len(fulfillments)}

\* C3: every snapshot gives each subscription the status of the priority
\* rule: On Hold if stored On Hold, else Fulfilled if every fulfillment is
\* Shipped, else Action Required if any is RX Received, else Active.
C3_DerivedStatusIsPriorityRule ==
    [][SnapshotDelivered =>
          /\ Len(subscriptions') = Cardinality(DOMAIN store)
          /\ \A i \in 1..Len(subscriptions') :
                LET sub == subscriptions'[i]
                IN  /\ sub.id \in DOMAIN store
                    /\ sub.status = PriorityRule(store[sub.id].status,
                                                 StatusesOf(store[sub.id].fulfillments))]_vars

C3_Witness ==
    \E i \in 1..Len(subscriptions) :
        /\ subscriptions[i].status = "Action Required"
        /\ store[subscriptions[i].id].status = "Fulfilled"
        /\ StatusesOf(subscriptions[i].fulfillments) = {"Shipped", "RX Received", "Scheduled"}

\* C4: a step that settles no edit and no delete leaves a stored status
\* On Hold as it is, and a snapshot delivered while the stored status is
\* On Hold displays On Hold whatever the fulfillments are.
C4_OnHoldSticky ==
    [][\A id \in DOMAIN store :
          store[id].status = "On Hold" =>
            /\ ~Settles({"handleSaveSubscription.update", "handleDelete"}) =>
                  (id \in DOMAIN store' /\ store'[id].status = "On Hold")
            /\ SnapshotDelivered =>
                  \E i \in 1..Len(subscriptions') :
                      /\ subscriptions'[i].id = id
                      /\ subscriptions'[i].status = "On Hold"]_vars

TransitionMessages == {"Updated fulfillment for", "Marked fulfillment for"}

\* On Hold is stored and displayed while a fulfillment is RX Received, and a
\* transition's log entry has reached the store since that snapshot
C4_Witness ==
    \E i \in 1..Len(subscriptions) :
        LET sub == subscriptions[i]
        IN  /\ sub.id \in DOMAIN store
            /\ store[sub.id].status = "On Hold"
            /\ sub.status = "On Hold"
            /\ "RX Received" \in StatusesOf(store[sub.id].fulfillments)
            /\ Len(store[sub.id].communicationLog) > Len(sub.communicationLog)
            /\ Last(store[sub.id].communicationLog).message[1] \in TransitionMessages

\* what a transition on key is to make of the fulfillments fs
IsTransitionOf(fs, gs, key, newStatus, tracking) ==
    /\ Len(gs) = Len(fs)
    /\ \A i \in 1..Len(fs) :
          IF fs[i].fulfillmentDate = key
          THEN /\ gs[i].status = newStatus
               /\ gs[i].tracking = (IF tracking = NULL THEN fs[i].tracking ELSE tracking)
               /\ gs[i].rxId = fs[i].rxId
               /\ gs[i].fulfillmentDate = fs[i].fulfillmentDate
          ELSE gs[i] = fs[i]

\* C5: the fulfillments a transition on a matching key writes are those of
\* the subscription it read with the matching fulfillment's status set to
\* newStatus, its tracking replaced only by a non-null tracking, and every
\* other fulfillment unchanged; once the write is settled the stored
\* fulfillment of that key has the new status and tracking.
C5_TransitionFrame ==
    [][/\ (/\ Len(writes') = Len(writes) + 1
           /\ Last(writes').origin = "updateFulfillment.addLog") =>
              LET w   == Last(writes')
                  sub == FindSub(subscriptions, w.id)[1]
              IN  (\E i \in 1..Len(sub.fulfillments) :
                        sub.fulfillments[i].fulfillmentDate = w.key) =>
                    IsTransitionOf(sub.fulfillments, w.next[1][2],
                                   w.key, w.newStatus, w.tracking)
       /\ (Settles({"updateFulfillment"}) /\ Head(writes).id \in DOMAIN store) =>
              LET w  == Head(writes)
                  fs == store'[w.id].fulfillments
              IN  /\ fs = w.patch[1][2]
                  /\ \A i \in 1..Len(fs) :
                        fs[i].fulfillmentDate = w.key =>
                            /\ fs[i].status = w.newStatus
                            /\ w.tracking # NULL => fs[i].tracking = w.tracking]_vars

\* a shipped fulfillment was moved on by a simulated event and kept its
\* tracking, beside fulfillments that are as they were created
C5_Witness ==
    \E id \in DOMAIN store :
        LET fs == store[id].fulfillments
        IN  /\ Len(fs) = 3
            /\ fs[1].status \in SIMULATED_STATUSES
            /\ fs[1].tracking = "1Z999"
            /\ fs[2].status = "Scheduled"
            /\ fs[3].status = "Scheduled"

\* C6: every transition leaves exactly one more entry in the stored log:
\* when the log write of a transition is settled on a stored subscription,
\* the stored log is one entry longer than before.
C6_OneLogEntryPerTransition ==
    [][(Settles({"updateFulfillment.addLog"}) /\ Head(writes).id \in DOMAIN store) =>
          Len(store'[Head(writes).id].communicationLog)
              = Len(store[Head(writes).id].communicationLog) + 1]_vars

\* C7: a transition on a fulfillmentDate that matches no fulfillment of the
\* subscription changes nothing in the store and reports no error.
C7_UnknownKeyIsNoOp ==
    [][\A id \in DOMAIN store :
          (/\ Settles({"updateFulfillment.addLog", "updateFulfillment"})
           /\ Head(writes).id = id
           /\ \A i \in 1..Len(store[id].fulfillments) :
                  store[id].fulfillments[i].fulfillmentDate # Head(writes).key) =>
            /\ store' = store
            /\ error' = error]_vars

\* C8: a stored fulfillment that is Shipped stays Shipped.
C8_ShippedIsTerminal ==
    [][\A id \in DOMAIN store \cap DOMAIN store' :
          \A i \in 1..Len(store[id].fulfillments) :
              store[id].fulfillments[i].status = "Shipped" =>
                  store'[id].fulfillments[i].status = "Shipped"]_vars

HasTracking(tracking) == tracking # NULL /\ tracking # ""

\* C9: every transition to Shipped carries a tracking value that is neither
\* null nor empty, every stored Shipped fulfillment has such a tracking, and
\* no transition to another status changes the tracking it read.
C9_ShippedCarriesTracking ==
    /\ [](\A i \in 1..Len(writes) :
            writes[i].newStatus = "Shipped" => HasTracking(writes[i].tracking))
    /\ [](\A id \in DOMAIN store :
            \A i \in 1..Len(store[id].fulfillments) :
                store[id].fulfillments[i].status = "Shipped" =>
                    HasTracking(store[id].fulfillments[i].tracking))
    /\ [][(/\ Len(writes') = Len(writes) + 1
           /\ Last(writes').origin = "updateFulfillment.addLog"
           /\ Last(writes').newStatus # "Shipped") =>
              LET w   == Last(writes')
                  sub == FindSub(subscriptions, w.id)[1]
              IN  \A i \in 1..Len(sub.fulfillments) :
                      w.next[1][2][i].tracking = sub.fulfillments[i].tracking]_vars

\* null sorts as a date after every date
DateKey(sub) ==
    IF getNextActionableDate(sub) = <<>> THEN <<1, 0>>
    ELSE <<0, getTime(getNextActionableDate(sub)[1])>>

IsPermutation(sorted, list) ==
    /\ Len(sorted) = Len(list)
    /\ \E p \in [1..Len(list) -> 1..Len(list)] :
          /\ \A i, j \in 1..Len(list) : p[i] = p[j] => i = j
          /\ \A i \in 1..Len(list) : sorted[i] = list[p[i]]

\* C10: the sorted list holds the subscriptions of the collection, all
\* Action Required ones before all others; among the others the next
\* actionable dates are non-decreasing, and a subscription with no
\* non-Shipped fulfillment comes after every subscription that has one.
C10_SortOrder ==
    \A engine \in Engines :
        LET sorted == sortedSubscriptions(engine, subscriptions)
        IN  /\ IsPermutation(sorted, subscriptions)
            /\ \A i, j \in 1..Len(sorted) :
                  i < j =>
                    /\ sorted[j].status = "Action Required" =>
                          sorted[i].status = "Action Required"
                    /\ (sorted[i].status # "Action Required"
                        /\ sorted[j].status # "Action Required") =>
                          \/ DateKey(sorted[i])[1] < DateKey(sorted[j])[1]
                          \/ /\ DateKey(sorted[i])[1] = DateKey(sorted[j])[1]
                             /\ DateKey(sorted[i])[2] <= DateKey(sorted[j])[2]
                    /\ getNextActionableDate(sorted[i]) = <<>> =>
                          getNextActionableDate(sorted[j]) = <<>>

\* three subscriptions arrive in the order: fully shipped, open and not
\* Action Required, Action Required
C10_Witness ==
    /\ Len(subscriptions) = 3
    /\ getNextActionableDate(subscriptions[1]) = <<>>
    /\ subscriptions[2].status = "Active"
    /\ subscriptions[3].status = "Action Required"
    /\ \A engine \in Engines :
          sortedSubscriptions(engine, subscriptions)
              = <<subscriptions[3], subscriptions[2], subscriptions[1]>>

\* the key the sort orders by: the Action Required class, then the date
SortKey(sub) == <<sub.status = "Action Required", DateKey(sub)>>

IndexOf(list, sub) == CHOOSE k \in 1..Len(list) : list[k] = sub

\* C11: the sort is stable: two subscriptions with equal sort keys (the same
\* Action Required class and the same next actionable date, two with no
\* non-Shipped fulfillment included) are compared as equal in both argument
\* orders and keep their relative input order, whatever engine sorts.
C11_SortIsStable ==
    \A i, j \in 1..Len(subscriptions) :
        (i < j /\ SortKey(subscriptions[i]) = SortKey(subscriptions[j])) =>
            /\ compare(subscriptions[i], subscriptions[j]) = 0
            /\ compare(subscriptions[j], subscriptions[i]) = 0
            /\ \A engine \in Engines :
                  LET sorted == sortedSubscriptions(engine, subscriptions)
                  IN  IndexOf(sorted, subscriptions[i]) < IndexOf(sorted, subscriptions[j])

\* the calendar month i months after the month of date, as <<year, month>>
MonthAfter(date, i) == <<date.y + ((date.m + i) \div 12), (date.m + i) % 12>>

\* the subscriptions of list with the id
WithId(list, id) == SelectSeq(list, LAMBDA sub : sub.id = id)

\* C12: when the write of a create is settled, the stored subscription has
\* its first fulfillment RX Received and every later one Scheduled, the
\* fulfillment of index i dated in the i-th month after the start date, on
\* the day of the start date or the last day of a shorter month; and the
\* first snapshot that holds a subscription gives it Action Required.
C12_CreatedSubscription ==
    [][/\ Settles({"handleSaveSubscription.add"}) =>
              LET sub == store'[Head(writes).id]
                  fs  == sub.fulfillments
              IN  /\ Len(fs) >= 1
                  /\ \A n \in 1..Len(fs) :
                        /\ fs[n].status = (IF n = 1 THEN "RX Received" ELSE "Scheduled")
                        /\ <<fs[n].fulfillmentDate.y, fs[n].fulfillmentDate.m>>
                               = MonthAfter(sub.startDate, n - 1)
                        /\ fs[n].fulfillmentDate.d
                               \in {sub.startDate.d,
                                    DaysInMonth(fs[n].fulfillmentDate.y,
                                                fs[n].fulfillmentDate.m)}
       /\ SnapshotDelivered =>
              \A id \in DOMAIN store :
                  WithId(subscriptions, id) = <<>> =>
                      WithId(subscriptions', id)[1].status = "Action Required"]_vars

\* C13: writes are last-writer-wins with no version check: an update of a
\* stored subscription is never refused and never reported, whatever
\* snapshot it was computed from, and every field it carries replaces the
\* stored field as a whole, so that what was stored since that snapshot
\* is lost.
C13_LastWriterWins ==
    [][(/\ writes # <<>>
        /\ writes' = Tail(writes) \o Continuation(Head(writes))
        /\ Head(writes).api = "updateDoc"
        /\ Head(writes).id \in DOMAIN store) =>
          LET w == Head(writes)
          IN  /\ error' = error
              /\ w.id \in DOMAIN store'
              /\ \A k \in 1..Len(w.patch) :
                    store'[w.id][w.patch[k][1]] = w.patch[k][2]
              /\ \A name \in DocFields :
                    (\A k \in 1..Len(w.patch) : w.patch[k][1] # name) =>
                        store'[w.id][name] = store[w.id][name]]_vars

\* a transition to Intake Sent is in the stored fulfillments while its log
\* entry, stored before, is gone: a log append computed from the same
\* snapshot has replaced the log; nothing is pending and no error is shown
C13_Witness ==
    /\ writes = <<>>
    /\ error = NULL
    /\ \E id \in DOMAIN store :
          LET sub == store[id]
          IN  /\ Len(sub.communicationLog) = 2
              /\ sub.communicationLog[2].actor = "Pharmacy Staff"
              /\ \E i \in 1..Len(sub.fulfillments) :
                    /\ sub.fulfillments[i].status = "Intake Sent"
                    /\ \A k \in 1..Len(sub.communicationLog) :
                          sub.communicationLog[k].message
                              # logMessage(sub.fulfillments[i], "Intake Sent", NULL)

\* the step takes the oldest pending write off the queue
WriteSettled ==
    /\ writes # <<>>
    /\ writes' # writes
    /\ ~(/\ Len(writes') = Len(writes) + 1
         /\ SubSeq(writes', 1, Len(writes)) = writes)

\* the write is in the store after the step
InStore(w) ==
    CASE w.api = "deleteDoc" -> w.id \notin DOMAIN store'
      [] OTHER -> /\ w.id \in DOMAIN store'
                  /\ \A k \in 1..Len(w.patch) :
                        store'[w.id][w.patch[k][1]] = w.patch[k][2]

\* C14: a store write that fails leaves the store as it was, shows an error
\* message, leaves the subscription list what the last snapshot made it,
\* and is not issued again; a failure of the change feed shows an error
\* message and leaves the list as it was, and the feed is not reopened.
C14_FailureHandling ==
    [][/\ WriteSettled =>
              LET w == Head(writes)
              IN  /\ subscriptions' = subscriptions
                  /\ ~InStore(w) =>
                        /\ store' = store
                        /\ error' # NULL
                        /\ SubSeq(writes', 1, Len(writes) - 1) = Tail(writes)
                        /\ \A k \in Len(writes)..Len(writes') : writes'[k] # w
       /\ (feed = "live" /\ feed' = "dead") =>
              /\ error' # NULL
              /\ subscriptions' = subscriptions
       /\ feed = "dead" =>
              /\ feed' = "dead"
              /\ subscriptions' = subscriptions]_vars

\* the fulfillment write of a transition was refused after its log entry was
\* stored: the message is shown, the modal is still open, nothing is
\* pending, and the list is the one of the last snapshot
C14_Witness ==
    /\ error = "Failed to update fulfillment status."
    /\ writes = <<>>
    /\ actionModalData # <<>>
    /\ \E i \in 1..Len(subscriptions) :
          LET sub == subscriptions[i]
          IN  /\ sub.id \in DOMAIN store
              /\ store[sub.id].fulfillments = sub.fulfillments
              /\ Len(store[sub.id].communicationLog) = Len(sub.communicationLog) + 1

\* C15: the stored status of a fulfillment immediately before a write that
\* makes it Shipped is RX Received.
C15_ShippedOnlyFromStoredRxReceived ==
    [][\A id \in DOMAIN store \cap DOMAIN store' :
          \A i \in 1..Len(store[id].fulfillments) :
              (/\ i <= Len(store'[id].fulfillments)
               /\ store'[id].fulfillments[i].status = "Shipped"
               /\ store[id].fulfillments[i].status # "Shipped") =>
                  store[id].fulfillments[i].status = "RX Received"]_vars

\* C15, amended: a transition to Shipped is issued only from the modal of a
\* fulfillment that shows RX Received there, that is, in the snapshot the
\* modal was opened from; it is keyed by that fulfillment's date.
C15_ShippedOnlyFromShownRxReceived ==
    [][(/\ Len(writes') = Len(writes) + 1
        /\ Last(writes').origin = "updateFulfillment.addLog"
        /\ Last(writes').newStatus = "Shipped") =>
          /\ actionModalData # <<>>
          /\ actionModalData[1].fulfillment.status = "RX Received"
          /\ actionModalData[1].fulfillment.fulfillmentDate = Last(writes').key
          /\ actionModalData[1].subscription.id = Last(writes').id]_vars

\* the fulfillments write of a Shipped transition is the next to reach the
\* store, where a simulated event issued from the same modal has already
\* moved that fulfillment away from RX Received
C15_Witness ==
    /\ writes # <<>>
    /\ Head(writes).origin = "updateFulfillment"
    /\ Head(writes).newStatus = "Shipped"
    /\ Head(writes).id \in DOMAIN store
    /\ \E i \in 1..Len(store[Head(writes).id].fulfillments) :
          LET f == store[Head(writes).id].fulfillments[i]
          IN  /\ f.fulfillmentDate = Head(writes).key
              /\ f.status \in {"Intake Sent", "Awaiting RX"}

====
